---- MODULE Spec2Model ----
(***************************************************************************)
(* Model of src/language-service/src/panels/templatePreview.ts:            *)
(* the TemplatePreviewPanel class (a singleton webview panel showing a     *)
(* jinja2 template preview) together with the part of the VS Code host it  *)
(* talks to (WebviewPanel objects, their event emitters, their webviews).  *)
(*                                                                         *)
(* The extension host runs every entry point and every event listener to   *)
(* completion on one thread, so each action below is one whole call or one *)
(* whole event delivery, nested listener calls included.                   *)
(***************************************************************************)
EXTENDS Integers, Sequences, FiniteSets, TLC

VARIABLES
    currentPanel,   \* TemplatePreviewPanel.currentPanel: 0 is undefined, else a session id
    sessions,       \* the TemplatePreviewPanel objects constructed so far, by id
    panels,         \* the host's WebviewPanel objects, by id
    lastEvent       \* the entry point or host event that ran last, whether it threw,
                    \* and the host calls the program made while it ran

vars == <<currentPanel, sessions, panels, lastEvent>>

(***************************************************************************)
(* Bound of the model.                                                     *)
(***************************************************************************)
MaxSessions == 2    \* TemplatePreviewPanel objects ever constructed

(***************************************************************************)
(* JavaScript values a template field or a message payload can hold.       *)
(***************************************************************************)
Undefined == [type |-> "undefined", str |-> ""]

Str(s) == [type |-> "string", str |-> s]

Texts == {"", "{{ 1 + 1 }}"}

\* What `${v}` puts into a template literal.
TemplateString(v) == IF v.type = "undefined" THEN "undefined" ELSE v.str

\* The values getNonce() may return (32 random characters in the program).
Nonces == {"nonceA", "nonceB"}

Uris == {"ext"}

FileNames == {"a.yaml"}

Columns == {"One"}

\* The three listeners the constructor registers, in registration order.
Subscriptions == <<"onDidDispose", "onDidChangeViewState", "onDidReceiveMessage">>

Commands == {"alert", "update", "other"}

viewType == "templatePreview"

getWebviewOptions(extensionUri) ==
    [enableScripts |-> TRUE, localResourceRoots |-> <<<<extensionUri, "media">>>>]

(***************************************************************************)
(* getHtmlForWebview: the document as the record of its parts that vary;   *)
(* the literal markup between them is fixed.                               *)
(***************************************************************************)
\* Mutant: the script tag carries a hard-coded nonce instead of the fresh one.
getHtmlForWebviewFixedScriptNonce(extensionUri, template, nonce) ==
    [ cspNonce    |-> nonce,
      stylesReset |-> <<"webview", extensionUri, "media", "reset.css">>,
      stylesMain  |-> <<"webview", extensionUri, "media", "vscode.css">>,
      pre         |-> TemplateString(template),
      scriptNonce |-> "nonceA",
      scriptUri   |-> <<"vscode-resource", extensionUri, "media", "main.js">> ]

getHtmlForWebview(extensionUri, template, nonce) ==
    [ cspNonce    |-> nonce,
      stylesReset |-> <<"webview", extensionUri, "media", "reset.css">>,
      stylesMain  |-> <<"webview", extensionUri, "media", "vscode.css">>,
      pre         |-> TemplateString(template),
      scriptNonce |-> nonce,
      scriptUri   |-> <<"vscode-resource", extensionUri, "media", "main.js">> ]

NoHtml == [ cspNonce |-> "", stylesReset |-> <<>>, stylesMain |-> <<>>,
            pre |-> "", scriptNonce |-> "", scriptUri |-> <<>> ]

(***************************************************************************)
(* The program state as one value, so that nested calls can be composed.   *)
(* `calls` lists the host calls made so far by the running operation, and  *)
(* `reentered` tells whether a listener of a session started while an      *)
(* operation of the same session was still running.                        *)
(***************************************************************************)
Cur == [cp |-> currentPanel, ss |-> sessions, ps |-> panels, calls |-> <<>>,
        reentered |-> FALSE]

Call(api, arg) == [api |-> api, arg |-> arg]

called(st, api, arg) == [st EXCEPT !.calls = Append(@, Call(api, arg))]

Event(op, threw, calls, reentered) ==
    [op |-> op, threw |-> threw, calls |-> calls, reentered |-> reentered]

Apply(op, st) ==
    /\ currentPanel' = st.cp
    /\ sessions' = st.ss
    /\ panels' = st.ps
    /\ lastEvent' = Event(op, FALSE, st.calls, st.reentered)

(***************************************************************************)
(* The host's side of a WebviewPanel.                                      *)
(*   isDisposed  the panel has been released                               *)
(*   visible     WebviewPanel.visible                                      *)
(*   html        webview.html                                              *)
(*   listeners   the registered listeners, each [event, owner]             *)
(***************************************************************************)
NewPanel(title, options, visible) ==
    [ viewType |-> viewType, title |-> title, options |-> options,
      isDisposed |-> FALSE, visible |-> visible,
      html |-> NoHtml, listeners |-> {} ]

Listener(event, owner) == [event |-> event, owner |-> owner]

OwnersOf(st, p, event) ==
    {l.owner : l \in {x \in st.ps[p].listeners : x.event = event}}

(***************************************************************************)
(* update() / updateRenderedTemplate(): assign a fresh document to the     *)
(* webview of the session's panel.                                         *)
(***************************************************************************)
update(st, s, nonce) ==
    LET this == st.ss[s]
        s0   == [st EXCEPT !.ps[this.panel].html =
                    getHtmlForWebview(this.extensionUri, this.template, nonce)]
    IN  called(s0, "webview.html", <<>>)

\* emitter(listener, null, this.disposables): register and keep the handle.
subscribe(st, s, event) ==
    called([st EXCEPT !.ps[st.ss[s].panel].listeners = @ \cup {Listener(event, s)},
                      !.ss[s].disposables = Append(@, event)],
           "subscribe", event)

(***************************************************************************)
(* new TemplatePreviewPanel(panel, extensionUri): the object gets the next *)
(* id; its template field has no initializer, so it holds undefined.       *)
(*   released    how often each subscription handle has been disposed      *)
(***************************************************************************)
NewSession(p, extensionUri) ==
    [ panel |-> p, extensionUri |-> extensionUri, template |-> Undefined,
      disposables |-> <<>>,
      released |-> [e \in {Subscriptions[i] : i \in 1..Len(Subscriptions)} |-> 0] ]

constructor(st, p, extensionUri, nonce) ==
    LET s  == Len(st.ss) + 1
        s0 == [st EXCEPT !.ss = Append(@, NewSession(p, extensionUri))]
        s1 == update(s0, s, nonce)
        s2 == subscribe(s1, s, Subscriptions[1])
        s3 == subscribe(s2, s, Subscriptions[2])
        s4 == subscribe(s3, s, Subscriptions[3])
    IN  s4

(***************************************************************************)
(* x.dispose() of a subscription handle: the listener leaves the emitter.  *)
(***************************************************************************)
releaseHandle(st, s, event) ==
    LET s0 == [st EXCEPT !.ps[st.ss[s].panel].listeners = @ \ {Listener(event, s)},
                         !.ss[s].released[event] = @ + 1]
    IN  called(s0, "handle.dispose", event)

\* Mutant: the handles are disposed but stay in this.disposables.
RECURSIVE releaseFrom(_, _, _)
releaseFrom(st, s, i) ==
    IF i = 0 THEN st
    ELSE releaseFrom(releaseHandle(st, s, st.ss[s].disposables[i]), s, i - 1)

releaseAllKeep(st, s) == releaseFrom(st, s, Len(st.ss[s].disposables))

\* Mutant: an if in place of the while, only the last handle is released.
releaseAllOnce(st, s) ==
    LET d == st.ss[s].disposables
    IN  IF Len(d) = 0 THEN st
        ELSE releaseHandle([st EXCEPT !.ss[s].disposables = SubSeq(d, 1, Len(d) - 1)],
                           s, d[Len(d)])

\* while (this.disposables.length) { const x = this.disposables.pop(); x.dispose(); }
RECURSIVE releaseAll(_, _)
releaseAll(st, s) ==
    LET d == st.ss[s].disposables
    IN  IF Len(d) = 0 THEN st
        ELSE LET x      == d[Len(d)]
                 popped == [st EXCEPT !.ss[s].disposables = SubSeq(d, 1, Len(d) - 1)]
             IN  releaseAll(releaseHandle(popped, s, x), s)

(***************************************************************************)
(* dispose() and the host's WebviewPanel.dispose() call each other: the    *)
(* host marks the panel disposed, then fires onDidDispose, whose listener  *)
(* is () => this.dispose(); a disposed panel ignores further dispose()     *)
(* calls.  The host then releases the webview with its content, which no   *)
(* getter returns any more.  `running` is the set of sessions with an      *)
(* operation in progress; dispose() notes when it starts on one of them.   *)
(***************************************************************************)
RECURSIVE dispose(_, _, _)
RECURSIVE panelDispose(_, _, _)
RECURSIVE fireOnDidDispose(_, _, _, _)

\* Mutant: dispose() forgets to clear the singleton.
disposeKeepSingleton(st, s, running) ==
    LET p  == st.ss[s].panel
        s0 == [st EXCEPT !.reentered = @ \/ (s \in running)]
        s2 == panelDispose(called(s0, "panel.dispose", <<>>), p, running \cup {s})
    IN  releaseAll(s2, s)

\* Mutant: the subscriptions are released before the panel is disposed.
disposeSubscriptionsFirst(st, s, running) ==
    LET p  == st.ss[s].panel
        s0 == [st EXCEPT !.reentered = @ \/ (s \in running)]
        s1 == [s0 EXCEPT !.cp = 0]
        s2 == releaseAll(s1, s)
    IN  panelDispose(called(s2, "panel.dispose", <<>>), p, running \cup {s})

dispose(st, s, running) ==
    LET p  == st.ss[s].panel
        s0 == [st EXCEPT !.reentered = @ \/ (s \in running)]
        s1 == [s0 EXCEPT !.cp = 0]
        s2 == panelDispose(called(s1, "panel.dispose", <<>>), p, running \cup {s})
    IN  releaseAll(s2, s)

fireOnDidDispose(st, p, owners, running) ==
    IF owners = {} THEN st
    ELSE LET o    == CHOOSE x \in owners : \A y \in owners : x <= y
             next == IF Listener("onDidDispose", o) \in st.ps[p].listeners
                     THEN dispose(st, o, running)
                     ELSE st
         IN  fireOnDidDispose(next, p, owners \ {o}, running)

panelDispose(st, p, running) ==
    IF st.ps[p].isDisposed THEN st
    ELSE LET s0 == [st EXCEPT !.ps[p].isDisposed = TRUE]
             s1 == fireOnDidDispose(s0, p, OwnersOf(s0, p, "onDidDispose"), running)
         IN  [s1 EXCEPT !.ps[p].listeners = {}, !.ps[p].visible = FALSE,
                        !.ps[p].html = NoHtml]

(***************************************************************************)
(* Initially nothing has been constructed.                                 *)
(***************************************************************************)
Init ==
    /\ currentPanel = 0
    /\ sessions = <<>>
    /\ panels = <<>>
    /\ lastEvent = Event("init", FALSE, <<>>, FALSE)

SessionIds == 1..Len(sessions)

PanelIds == 1..Len(panels)

(***************************************************************************)
(* TemplatePreviewPanel.createOrShow(sourceUri).  `editor` tells whether   *)
(* vscode.window.activeTextEditor is set; without one the read of          *)
(* activeTextEditor.document throws before anything else happens.          *)
(***************************************************************************)
\* currentPanel, when set, refers to a session whose panel is open (dispose()
\* clears it first), so reveal() never meets a disposed panel.
reveal(st, p, column) == called(st, "panel.reveal", column)

createWebviewPanel(st, title, options) ==
    called([st EXCEPT !.ps = Append(@, NewPanel(title, options, TRUE))],
           "createWebviewPanel", title)

\* Mutant: the check for an existing panel is missing.
createOrShowNoCheck(st, column, fileName, sourceUri, nonce) ==
    LET title == <<fileName, " - Home Assistant Template Preview">>
        s0 == createWebviewPanel(st, title, getWebviewOptions(sourceUri))
        s1 == constructor(s0, Len(s0.ps), sourceUri, nonce)
    IN  [s1 EXCEPT !.cp = Len(s1.ss)]

\* Mutant: revealing the existing panel also renders it again.
createOrShowRerender(st, column, fileName, sourceUri, nonce) ==
    IF st.cp # 0
    THEN update(reveal(st, st.ss[st.cp].panel, column), st.cp, nonce)
    ELSE LET title == <<fileName, " - Home Assistant Template Preview">>
             s0 == createWebviewPanel(st, title, getWebviewOptions(sourceUri))
             s1 == constructor(s0, Len(s0.ps), sourceUri, nonce)
         IN  [s1 EXCEPT !.cp = Len(s1.ss)]

createOrShow(st, column, fileName, sourceUri, nonce) ==
    IF st.cp # 0
    THEN reveal(st, st.ss[st.cp].panel, column)
    ELSE LET title == <<fileName, " - Home Assistant Template Preview">>
             s0 == createWebviewPanel(st, title, getWebviewOptions(sourceUri))
             s1 == constructor(s0, Len(s0.ps), sourceUri, nonce)
         IN  [s1 EXCEPT !.cp = Len(s1.ss)]

\* Mutant: the title is read only when there is an editor, so the call no
\* longer throws without one.
CreateOrShowGuardedTitle(editor, column, fileName, sourceUri, nonce) ==
    /\ currentPanel = 0 => Len(sessions) < MaxSessions
    /\ Apply("createOrShow", createOrShow(Cur, column, fileName, sourceUri, nonce))

CreateOrShow(editor, column, fileName, sourceUri, nonce) ==
    /\ currentPanel = 0 => Len(sessions) < MaxSessions
    /\ IF ~editor
       THEN /\ UNCHANGED <<currentPanel, sessions, panels>>
            /\ lastEvent' = Event("createOrShow", TRUE, <<>>, FALSE)
       ELSE Apply("createOrShow", createOrShow(Cur, column, fileName, sourceUri, nonce))

(***************************************************************************)
(* TemplatePreviewPanel.revive(panel, sourceUri): the host hands over a    *)
(* panel it restored itself.                                               *)
(***************************************************************************)
revive(st, p, sourceUri, nonce) ==
    LET s1 == constructor(st, p, sourceUri, nonce)
    IN  [s1 EXCEPT !.cp = Len(s1.ss)]

Revive(visible, fileName, sourceUri, nonce) ==
    /\ Len(sessions) < MaxSessions
    /\ LET title == <<fileName, " - Home Assistant Template Preview">>
           s0 == [Cur EXCEPT !.ps = Append(@,
                     NewPanel(title, getWebviewOptions(sourceUri), visible))]
       IN  Apply("revive", revive(s0, Len(s0.ps), sourceUri, nonce))

(***************************************************************************)
(* updateTemplate(template): webview.postMessage({command, template}).     *)
(***************************************************************************)
\* Mutant: the session also stores the text it forwards.
updateTemplateAlsoStores(st, s, template) ==
    called([st EXCEPT !.ss[s].template = template],
           "webview.postMessage", [command |-> "update", template |-> template])

updateTemplate(st, s, template) ==
    called(st, "webview.postMessage", [command |-> "update", template |-> template])

UpdateTemplate(s, text) == Apply("updateTemplate", updateTemplate(Cur, s, Str(text)))

(***************************************************************************)
(* dispose() called from outside, on any session a caller holds.           *)
(***************************************************************************)
Dispose(s) == Apply("dispose", dispose(Cur, s, {}))

(***************************************************************************)
(* The host closes a panel (the user closed the tab): it disposes the      *)
(* panel object, which fires onDidDispose.                                 *)
(***************************************************************************)
HostClosePanel(p) ==
    /\ ~panels[p].isDisposed
    /\ Apply("close", panelDispose(Cur, p, {}))

(***************************************************************************)
(* The host reports a view state change of a panel; the listener is        *)
(*   (e) => { if (this.panel.visible) { this.update(); } }                 *)
(***************************************************************************)
\* Mutant: the listener renders without looking at panel.visible.
onDidChangeViewStateAlways(st, s, nonce) == update(st, s, nonce)

onDidChangeViewState(st, s, nonce) ==
    IF st.ps[st.ss[s].panel].visible THEN update(st, s, nonce) ELSE st

HostChangeViewState(p, visible, nonce) ==
    /\ ~panels[p].isDisposed
    /\ LET s0 == [Cur EXCEPT !.ps[p].visible = visible]
       IN  \E s \in OwnersOf(s0, p, "onDidChangeViewState") :
               Apply("viewState", onDidChangeViewState(s0, s, nonce))

(***************************************************************************)
(* The webview posts a message; the listener switches on message.command.  *)
(***************************************************************************)
\* Mutant: case "alert" has lost its return and falls through to "update".
onDidReceiveMessageFallthrough(st, s, message, nonce) ==
    IF message.command \in {"alert", "update"}
    THEN update([st EXCEPT !.ss[s].template =
                    IF "template" \in DOMAIN message THEN message.template ELSE Undefined],
                s, nonce)
    ELSE st

\* Mutant: case "update" renders without storing the payload.
onDidReceiveMessageNoStore(st, s, message, nonce) ==
    IF message.command = "alert" THEN st
    ELSE IF message.command = "update" THEN update(st, s, nonce)
         ELSE st

\* Mutant: case "update" stores the payload but renders only a visible panel.
onDidReceiveMessageRenderIfVisible(st, s, message, nonce) ==
    IF message.command = "alert" THEN st
    ELSE IF message.command = "update"
         THEN LET s0 == [st EXCEPT !.ss[s].template = message.template]
              IN  IF s0.ps[s0.ss[s].panel].visible THEN update(s0, s, nonce) ELSE s0
         ELSE st

onDidReceiveMessage(st, s, message, nonce) ==
    IF message.command = "alert" THEN st
    ELSE IF message.command = "update"
         THEN update([st EXCEPT !.ss[s].template = message.template], s, nonce)
         ELSE st

Message(command, text) ==
    IF command = "update"
    THEN [command |-> command, template |-> Str(text)]
    ELSE [command |-> command, text |-> Str(text)]

HostReceiveMessage(p, command, text, nonce) ==
    /\ ~panels[p].isDisposed
    /\ \E s \in OwnersOf(Cur, p, "onDidReceiveMessage") :
           Apply(command, onDidReceiveMessage(Cur, s, Message(command, text), nonce))

(***************************************************************************)
(* Specifications.                                                         *)
(***************************************************************************)
\* getNonce() is called only by an operation that renders: the others get one
\* value, which they do not use.
NoncesIf(renders) == IF renders THEN Nonces ELSE {"nonceA"}

DoCreateOrShow ==
    \E editor \in BOOLEAN, column \in Columns, f \in FileNames, u \in Uris :
        \E n \in NoncesIf(editor /\ currentPanel = 0) :
            CreateOrShow(editor, column, f, u, n)

DoRevive ==
    \E visible \in BOOLEAN, f \in FileNames, u \in Uris, n \in Nonces :
        Revive(visible, f, u, n)

DoUpdateTemplate == \E s \in SessionIds, t \in Texts : UpdateTemplate(s, t)

DoDispose == \E s \in SessionIds : Dispose(s)

DoHostClosePanel == \E p \in PanelIds : HostClosePanel(p)

DoHostChangeViewState ==
    \E p \in PanelIds, visible \in BOOLEAN :
        \E n \in NoncesIf(visible) : HostChangeViewState(p, visible, n)

DoHostReceiveMessage ==
    \E p \in PanelIds, c \in Commands, t \in Texts :
        \E n \in NoncesIf(c = "update") : HostReceiveMessage(p, c, t, n)

Next ==
    \/ DoCreateOrShow
    \/ DoRevive
    \/ DoUpdateTemplate
    \/ DoDispose
    \/ DoHostClosePanel
    \/ DoHostChangeViewState
    \/ DoHostReceiveMessage

Spec == Init /\ [][Next]_vars

\* Every entry point but revive and dispose(): the sessions are made by
\* createOrShow and end when the host closes their panel.
NextShow ==
    \/ DoCreateOrShow
    \/ DoUpdateTemplate
    \/ DoHostClosePanel
    \/ DoHostChangeViewState
    \/ DoHostReceiveMessage

SpecShow == Init /\ [][NextShow]_vars

(***************************************************************************)
(* Vocabulary of the properties.                                           *)
(***************************************************************************)
\* A live session: a constructed TemplatePreviewPanel whose surface is not closed.
Live(s) == ~panels[sessions[s].panel].isDisposed

LiveSessions == {s \in SessionIds : Live(s)}

\* The live sessions that still hold subscriptions.
SubscribedSessions == {s \in LiveSessions : Len(sessions[s].disposables) > 0}

\* The session constructed on panel p.
Owner(p) == CHOOSE s \in SessionIds : sessions[s].panel = p

CountCalls(calls, api) == Cardinality({i \in 1..Len(calls) : calls[i].api = api})

CountReleases(calls, event) ==
    Cardinality({i \in 1..Len(calls) : calls[i] = Call("handle.dispose", event)})

Events == {Subscriptions[i] : i \in 1..Len(Subscriptions)}

ProgramUnchanged == UNCHANGED <<currentPanel, sessions, panels>>

\* The last operation was a createOrShow that found a session and revealed it.
Revealed ==
    /\ lastEvent.op = "createOrShow"
    /\ ~lastEvent.threw
    /\ CountCalls(lastEvent.calls, "panel.reveal") = 1

\* The last operation was a createOrShow or revive that constructed a session.
Constructed ==
    /\ lastEvent.op \in {"createOrShow", "revive"}
    /\ CountCalls(lastEvent.calls, "webview.html") = 1

\* The last operation disposed a session that was live: it released handles.
Disposed ==
    /\ lastEvent.op \in {"dispose", "close"}
    /\ CountCalls(lastEvent.calls, "handle.dispose") > 0

(***************************************************************************)
(* C1. Over createOrShow calls (with an active editor) interleaved with    *)
(* surface-close notifications, at most one live session exists in every   *)
(* reachable state, and a createOrShow that finds a session creates no     *)
(* surface and no session.  Checked under SpecShow.                        *)
(***************************************************************************)
C1_AtMostOneLiveSession ==
    /\ [](Cardinality(LiveSessions) <= 1)
    /\ [][(lastEvent'.op = "createOrShow" /\ ~lastEvent'.threw /\ currentPanel # 0)
            => (Len(panels') = Len(panels) /\ Len(sessions') = Len(sessions))]_vars

C1_Witness ==
    /\ Revealed
    /\ Len(sessions) = 2
    /\ LiveSessions = {2}

(***************************************************************************)
(* C2. After revive is called while a session is live there are never two  *)
(* sessions that both hold active subscriptions on an open surface.        *)
(***************************************************************************)
C2_ReviveKeepsOneSession ==
    lastEvent.op = "revive" => Cardinality(SubscribedSessions) <= 1

(***************************************************************************)
(* C3. The singleton and the live sessions agree: a set reference points   *)
(* to a session that has not been disposed, and an absent reference means  *)
(* that no session with an open surface and active subscriptions exists.   *)
(***************************************************************************)
C3_SingletonAgrees ==
    /\ currentPanel # 0 => Live(currentPanel)
    /\ currentPanel = 0 => SubscribedSessions = {}

(***************************************************************************)
(* C4 as stated. A disposal of a live session, started by dispose() or by  *)
(* the host's surface-closed notification, releases each of the three      *)
(* subscription handles exactly once and invokes the surface release       *)
(* primitive exactly once.                                                 *)
(***************************************************************************)
C4_ReleasedOnceInvokedOnce ==
    Disposed =>
        /\ \A e \in Events : CountReleases(lastEvent.calls, e) = 1
        /\ CountCalls(lastEvent.calls, "panel.dispose") = 1

(***************************************************************************)
(* C4 as amended. A disposal of a live session releases each of the three  *)
(* subscription handles exactly once and releases the surface; the program *)
(* invokes panel.dispose() once when the host's notification started the   *)
(* disposal and twice when dispose() did (the nested call is ignored by    *)
(* the host).  Over a session's whole life no handle is released twice,    *)
(* and a closed session has released all three and holds none.             *)
(***************************************************************************)
C4_CleanupExactlyOnce ==
    /\ Disposed =>
        /\ \A e \in Events : CountReleases(lastEvent.calls, e) = 1
        /\ CountCalls(lastEvent.calls, "panel.dispose") =
              (IF lastEvent.op = "dispose" THEN 2 ELSE 1)
    /\ \A s \in SessionIds :
        /\ \A e \in Events : sessions[s].released[e] <= 1
        /\ ~Live(s) =>
              /\ \A e \in Events : sessions[s].released[e] = 1
              /\ sessions[s].disposables = <<>>
              /\ panels[sessions[s].panel].listeners = {}
        /\ Live(s) => \A e \in Events : sessions[s].released[e] = 0

C4_Witness ==
    /\ Disposed
    /\ lastEvent.op = "dispose"
    /\ lastEvent.reentered

(***************************************************************************)
(* C5. dispose() clears the singleton, and a createOrShow (with an active  *)
(* editor) that finds the singleton absent constructs a fresh session: one *)
(* new surface, one new session on it which becomes the singleton, with    *)
(* its own three subscriptions and the initial template text; the sessions *)
(* constructed before are left as they were.                               *)
(***************************************************************************)
C5_DisposeThenShowIsFresh ==
    [][ /\ lastEvent'.op \in {"dispose", "close"} => currentPanel' = 0
        /\ (lastEvent'.op = "createOrShow" /\ ~lastEvent'.threw /\ currentPanel = 0) =>
             LET n == Len(sessions) + 1
                 q == Len(panels) + 1
             IN  /\ Len(sessions') = n
                 /\ Len(panels') = q
                 /\ currentPanel' = n
                 /\ sessions'[n].panel = q
                 /\ ~panels'[q].isDisposed
                 /\ sessions'[n].disposables = Subscriptions
                 /\ panels'[q].listeners = {Listener(e, n) : e \in Events}
                 /\ sessions'[n].template = NewSession(q, sessions'[n].extensionUri).template
                 /\ \A s \in SessionIds : sessions'[s] = sessions[s]
                 /\ \A p \in PanelIds : panels'[p] = panels[p]
      ]_vars

C5_Witness ==
    /\ Constructed
    /\ lastEvent.op = "createOrShow"
    /\ Len(sessions) = 2
    /\ ~Live(1)
    /\ sessions[1].template = Str("{{ 1 + 1 }}")
    /\ currentPanel = 2
    /\ sessions[2].template # sessions[1].template

(***************************************************************************)
(* C6. For every text T, an inbound {command: "update", template: T} on a  *)
(* live session stores T, and a following view state change that finds    *)
(* the surface visible leaves the surface content equal to a rendered      *)
(* document with T in its preformatted block.                              *)
(***************************************************************************)
C6_UpdateThenVisibleShowsText ==
    [][ \A p \in PanelIds, t \in Texts :
          /\ (lastEvent'.op = "update" /\ \E n \in Nonces : HostReceiveMessage(p, "update", t, n))
                => sessions'[Owner(p)].template = Str(t)
          /\ ( /\ lastEvent.op = "update"
               /\ lastEvent'.op = "viewState"
               /\ sessions[Owner(p)].template = Str(t)
               /\ \E n \in Nonces : HostChangeViewState(p, TRUE, n) )
                => /\ panels'[p].html.pre = t
                   /\ \E n \in Nonces : panels'[p].html =
                          getHtmlForWebview(sessions[Owner(p)].extensionUri, Str(t), n)
                   /\ sessions'[Owner(p)].template = Str(t)
      ]_vars

C6_Witness ==
    /\ lastEvent.op = "viewState"
    /\ CountCalls(lastEvent.calls, "webview.html") = 1
    /\ \E p \in PanelIds :
          /\ panels[p].visible
          /\ sessions[Owner(p)].template = Str("{{ 1 + 1 }}")
          /\ panels[p].html.pre = "{{ 1 + 1 }}"

(***************************************************************************)
(* C7. An inbound {command: "alert", text: x} changes nothing: the stored  *)
(* text, the surface content with its nonce, the singleton and the         *)
(* subscriptions stay as they are, nothing is rendered and nothing is sent.*)
(***************************************************************************)
C7_AlertChangesNothing ==
    [][ \A p \in PanelIds, t \in Texts, n \in Nonces :
          (lastEvent'.op = "alert" /\ HostReceiveMessage(p, "alert", t, n)) =>
              /\ ProgramUnchanged
              /\ lastEvent'.calls = <<>>
      ]_vars

C7_Witness ==
    /\ lastEvent.op = "alert"
    /\ \E s \in LiveSessions :
          /\ sessions[s].template = Str("{{ 1 + 1 }}")
          /\ panels[sessions[s].panel].html.pre = "{{ 1 + 1 }}"
          /\ currentPanel = s

(***************************************************************************)
(* C8. updateTemplate(text) on a live session posts exactly one message    *)
(* {command: "update", template: text} to the webview and does nothing     *)
(* else: stored text and surface content are unchanged.                    *)
(***************************************************************************)
C8_UpdateTemplateOnlyPosts ==
    [][ \A s \in SessionIds, t \in Texts :
          (lastEvent'.op = "updateTemplate" /\ Live(s) /\ UpdateTemplate(s, t)) =>
              /\ lastEvent'.calls =
                    <<Call("webview.postMessage", [command |-> "update", template |-> Str(t)])>>
              /\ ProgramUnchanged
      ]_vars

C8_Witness ==
    /\ lastEvent.op = "updateTemplate"
    /\ lastEvent.calls =
          <<Call("webview.postMessage", [command |-> "update", template |-> Str("{{ 1 + 1 }}")])>>
    /\ \E s \in LiveSessions : sessions[s].template # Str("{{ 1 + 1 }}")

(***************************************************************************)
(* C9. With a session and an active editor, createOrShow reveals the       *)
(* existing surface and changes nothing else: no surface is created, the   *)
(* singleton, the stored text, the surface content and the subscriptions   *)
(* are unchanged, and nothing is rendered.                                 *)
(***************************************************************************)
C9_RevealChangesNothing ==
    [][ (lastEvent'.op = "createOrShow" /\ ~lastEvent'.threw /\ currentPanel # 0) =>
            /\ ProgramUnchanged
            /\ \E c \in Columns : lastEvent'.calls = <<Call("panel.reveal", c)>>
      ]_vars

C9_Witness ==
    /\ Revealed
    /\ currentPanel # 0
    /\ sessions[currentPanel].template = Str("{{ 1 + 1 }}")

(***************************************************************************)
(* C10. Right after a session is constructed (createOrShow without a       *)
(* session, or revive) the surface content is the rendered document whose  *)
(* preformatted block holds the empty string.                              *)
(***************************************************************************)
C10_InitialRenderIsEmpty ==
    Constructed => panels[sessions[Len(sessions)].panel].html.pre = ""

(***************************************************************************)
(* C11. createOrShow without an active editor throws where it reads the    *)
(* editor's document and leaves the program as it was: without a session   *)
(* no surface and no session are created and the singleton stays absent,   *)
(* with a session that session is neither revealed nor modified.           *)
(***************************************************************************)
C11_NoEditorThrowsAndChangesNothing ==
    [][ (\E c \in Columns, f \in FileNames, u \in Uris, n \in Nonces :
            CreateOrShow(FALSE, c, f, u, n)) =>
            /\ ProgramUnchanged
            /\ lastEvent'.threw
            /\ lastEvent'.calls = <<>>
      ]_vars

C11_Witness ==
    /\ lastEvent.op = "createOrShow"
    /\ lastEvent.threw
    /\ currentPanel # 0
    /\ Live(currentPanel)
    /\ sessions[currentPanel].template = Str("{{ 1 + 1 }}")

(***************************************************************************)
(* C12. Two consecutive renders of a live session with the same stored     *)
(* text give documents that differ at most in the nonce: every other part  *)
(* is determined by the stored text and the asset locations, and within    *)
(* one document the nonce of the content policy is the nonce of the script *)
(* tag.                                                                    *)
(***************************************************************************)
WithoutNonce(h) == [h EXCEPT !.cspNonce = "", !.scriptNonce = ""]

C12_RendersDifferOnlyInNonce ==
    /\ [](\A s \in LiveSessions :
            LET h == panels[sessions[s].panel].html
                u == sessions[s].extensionUri
            IN  /\ h.cspNonce \in Nonces
                /\ h.scriptNonce = h.cspNonce
                /\ h.pre = TemplateString(sessions[s].template)
                /\ h.stylesReset = <<"webview", u, "media", "reset.css">>
                /\ h.stylesMain = <<"webview", u, "media", "vscode.css">>
                /\ h.scriptUri = <<"vscode-resource", u, "media", "main.js">>)
    /\ [][ \A s \in SessionIds :
             ( /\ Live(s)
               /\ ~panels'[sessions[s].panel].isDisposed
               /\ sessions'[s].template = sessions[s].template )
             => WithoutNonce(panels'[sessions[s].panel].html)
                   = WithoutNonce(panels[sessions[s].panel].html)
         ]_vars

C12_Witness ==
    /\ lastEvent.op = "viewState"
    /\ CountCalls(lastEvent.calls, "webview.html") = 1
    /\ \E s \in LiveSessions :
          /\ sessions[s].template = Str("{{ 1 + 1 }}")
          /\ panels[sessions[s].panel].visible
          /\ panels[sessions[s].panel].html.cspNonce = "nonceB"
          /\ panels[sessions[s].panel].html.scriptNonce = "nonceB"

(***************************************************************************)
(* C13. A view state change renders the surface again, from the stored     *)
(* template text, if and only if the surface is visible at that moment;    *)
(* when it is hidden neither the surface content nor the stored text       *)
(* changes.  The stored text changes in neither case.                      *)
(***************************************************************************)
C13_ViewStateRendersIffVisible ==
    [][ \A p \in PanelIds, v \in BOOLEAN :
          (lastEvent'.op = "viewState" /\ \E n \in Nonces : HostChangeViewState(p, v, n)) =>
              /\ sessions' = sessions
              /\ currentPanel' = currentPanel
              /\ panels'[p].visible = v
              /\ v => /\ lastEvent'.calls = <<Call("webview.html", <<>>)>>
                      /\ \E n \in Nonces : panels'[p].html =
                            getHtmlForWebview(sessions[Owner(p)].extensionUri,
                                              sessions[Owner(p)].template, n)
              /\ ~v => /\ lastEvent'.calls = <<>>
                       /\ panels'[p].html = panels[p].html
      ]_vars

C13_Witness ==
    /\ lastEvent.op = "viewState"
    /\ lastEvent.calls = <<>>
    /\ \E s \in LiveSessions :
          /\ ~panels[sessions[s].panel].visible
          /\ sessions[s].template = Str("{{ 1 + 1 }}")
          /\ panels[sessions[s].panel].html.cspNonce = "nonceB"

(***************************************************************************)
(* C14 as stated. No listener of a session starts while another operation  *)
(* of the same session is still in progress, dispose() between releasing   *)
(* the surface and releasing the subscriptions included.                   *)
(***************************************************************************)
C14_NoHandlerStartsDuringOperation == ~lastEvent.reentered

(***************************************************************************)
(* C14 as amended. Every entry point and every host event runs to          *)
(* completion before the next starts, and a listener starts inside an      *)
(* operation of its own session in exactly one case: a dispose() called    *)
(* from outside on a live session releases the surface, which makes the    *)
(* host run the onDidDispose listener, a nested dispose(), before the      *)
(* outer one reaches its subscriptions.  The operation then made the calls *)
(* panel.dispose(), panel.dispose() and the three handle releases, last    *)
(* registered first.                                                       *)
(***************************************************************************)
C14_OnlyDisposeReenters ==
    /\ lastEvent.reentered <=> (lastEvent.op = "dispose" /\ Disposed)
    /\ lastEvent.reentered =>
          lastEvent.calls = << Call("panel.dispose", <<>>),
                               Call("panel.dispose", <<>>),
                               Call("handle.dispose", Subscriptions[3]),
                               Call("handle.dispose", Subscriptions[2]),
                               Call("handle.dispose", Subscriptions[1]) >>

C14_Witness ==
    /\ lastEvent.reentered
    /\ Len(lastEvent.calls) = 5
    /\ currentPanel = 0
    /\ \E s \in SessionIds : ~Live(s) /\ sessions[s].template = Str("{{ 1 + 1 }}")

(***************************************************************************)
(* C15. On a live session both the surface-closed notification and an      *)
(* explicit dispose() have a result in every reachable state, and the step *)
(* ends with the session's subscription set empty, no listener of it left  *)
(* on the surface, the surface closed and the singleton reference absent.  *)
(* From then on the session stays closed and no step, a visibility or      *)
(* inbound-message event included, changes its stored text or the content  *)
(* of its closed surface.                                                  *)
(***************************************************************************)
C15_DisposalEndsTheSession ==
    /\ [](\A s \in SessionIds : Live(s) =>
            LET p      == sessions[s].panel
                Ended(st) == /\ st.ss[s].disposables = <<>>
                             /\ st.ps[p].listeners = {}
                             /\ st.ps[p].isDisposed
                             /\ st.cp = 0
            IN  /\ Ended(dispose(Cur, s, {}))
                /\ Ended(panelDispose(Cur, p, {})))
    /\ [][\A s \in SessionIds :
            LET p == sessions[s].panel
            IN  /\ (Live(s) /\ (Dispose(s) \/ HostClosePanel(p))) =>
                      /\ sessions'[s].disposables = <<>>
                      /\ panels'[p].listeners = {}
                      /\ panels'[p].isDisposed
                      /\ currentPanel' = 0
                /\ ~Live(s) =>
                      /\ panels'[p].isDisposed
                      /\ sessions'[s].disposables = <<>>
                      /\ sessions'[s].template = sessions[s].template
                      /\ panels'[p].html = panels[p].html
                      /\ \A v \in BOOLEAN, n \in Nonces : ~HostChangeViewState(p, v, n)
                      /\ \A c \in Commands, t \in Texts, n \in Nonces :
                             ~HostReceiveMessage(p, c, t, n)
      ]_vars

C15_Witness ==
    /\ lastEvent.op = "close"
    /\ Disposed
    /\ currentPanel = 0
    /\ Len(sessions) = 1
    /\ sessions[1].disposables = <<>>
    /\ sessions[1].template = Str("{{ 1 + 1 }}")
    /\ panels[sessions[1].panel].html = NoHtml

(***************************************************************************)
(* C16 as stated. dispose() on a session that has already been disposed    *)
(* changes nothing: the singleton reference, every session, one made by    *)
(* createOrShow or revive since the first disposal included, and every     *)
(* surface stay as they were.                                              *)
(***************************************************************************)
C16_DisposeIsIdempotent ==
    [][\A s \in SessionIds : (~Live(s) /\ Dispose(s)) => ProgramUnchanged]_vars

(***************************************************************************)
(* C17. Between events the content of every live session's surface embeds  *)
(* the text the session stores, whether the surface is visible or hidden.  *)
(* The stored text of a session changes only in a step of the inbound      *)
(* "update" handler of that session, and such a step, on a visible or a    *)
(* hidden surface, stores the payload and leaves the surface showing it:   *)
(* the surface shows the payload of the last "update" message whatever     *)
(* view state changes, reveals and updateTemplate calls came in between.   *)
(***************************************************************************)
C17_SurfaceNeverStale ==
    /\ [](\A s \in LiveSessions :
            panels[sessions[s].panel].html.pre = TemplateString(sessions[s].template))
    /\ [][\A s \in SessionIds :
            LET p == sessions[s].panel
            IN  /\ sessions'[s].template # sessions[s].template =>
                      /\ lastEvent'.op = "update"
                      /\ \E t \in Texts, n \in Nonces : HostReceiveMessage(p, "update", t, n)
                /\ \A t \in Texts :
                      (lastEvent'.op = "update" /\ Owner(p) = s
                          /\ \E n \in Nonces : HostReceiveMessage(p, "update", t, n)) =>
                         /\ sessions'[s].template = Str(t)
                         /\ panels'[p].html.pre = t
                         /\ panels'[p].visible = panels[p].visible
      ]_vars

C17_Witness ==
    /\ lastEvent.op = "update"
    /\ \E s \in LiveSessions :
          /\ ~panels[sessions[s].panel].visible
          /\ sessions[s].template = Str("{{ 1 + 1 }}")
          /\ panels[sessions[s].panel].html.pre = "{{ 1 + 1 }}"

====
